---- MODULE Spec2Model ----
(***************************************************************************)
(* State-machine model of the GitLab DevOps metrics tools in               *)
(* src/project/mcp_main.py: the remote fetcher make_gitlab_request, the    *)
(* asyncio.gather batches of get_dora_metrics, project_health_report and   *)
(* list_group_projects, and the derivations computed from their results.   *)
(* Spec runs the fetches of these three tools step by step; SpecDerived    *)
(* resumes get_dora_metrics, project_health_report, analyze_merge_requests,*)
(* analyze_issues, monitor_pipelines and get_project_activity after their  *)
(* fetches, over a wider range of answers; SpecPair runs two invocations   *)
(* interleaved on one event loop.                                          *)
(*                                                                         *)
(* Time is counted in whole hours.  A JSON value is a tagged record:       *)
(* None, a list (t = "list", v a sequence) or an object (t = "obj", v a    *)
(* function from keys to values; an absent key is absent from DOMAIN).     *)
(***************************************************************************)
EXTENDS Integers, Sequences, FiniteSets, TLC

VARIABLES
    op,       \* the tool being invoked
    args,     \* its arguments
    pc,       \* "call" | "wait" (suspended at an await) | "run" | "done"
    round,    \* number of awaits the invocation has started
    batch,    \* endpoints of the batch being awaited, in request order
    task,     \* per request of the batch: its state, response and return value
    results,  \* what the await hands back: one slot per request
    sent,     \* endpoint -> number of GET requests issued in this invocation
    log,      \* diagnostics printed by make_gitlab_request
    out       \* what the tool returns

vars == <<op, args, pc, round, batch, task, results, sent, log, out>>

---------------------------------------------------------------------------
(* Bounds of the model *)

\* largest number of projects the group listing returns
MaxProjects == 1

\* merge requests in one answer to analyze_merge_requests
MaxMrs == 3

\* issues in one answer to analyze_issues
MaxIssues == 2

\* pipelines in one answer to monitor_pipelines
MaxPipelines == 3

---------------------------------------------------------------------------
(* JSON values and Python truthiness *)

None == [t |-> "none"]

Pending == [t |-> "pending"]

Undecodable == [t |-> "undecodable"]

JList(s) == [t |-> "list", v |-> s]

JObj(d) == [t |-> "obj", v |-> d]

IsList(x) == x.t = "list"

\* bool(x) for the values a fetch can return
Truthy(x) ==
    CASE x.t = "list" -> Len(x.v) > 0
      [] x.t = "obj"  -> DOMAIN x.v # {}
      [] OTHER        -> FALSE

\* faulty variant: the `or []` is dropped
OrEmptyListDropped(x) == x

\* x or []
OrEmptyList(x) == IF Truthy(x) THEN x ELSE JList(<<>>)

\* d.get(k, default)
DictGet(d, k, default) == IF k \in DOMAIN d THEN d[k] ELSE default

\* d.get(k) is truthy: the key is present (its value a non-empty text)
HasKey(d, k) == k \in DOMAIN d

RECURSIVE SumSeq(_)
SumSeq(s) == IF s = <<>> THEN 0 ELSE Head(s) + SumSeq(Tail(s))

---------------------------------------------------------------------------
(* Clock and timestamps *)

\* datetime.now(): the local wall clock, in hours
Clock == 24 * 100 + 9

\* datetime.now().replace(tzinfo=timezone.utc): the wall clock relabelled UTC
NowUtc == Clock

\* an ISO-8601 timestamp text: wall-clock hours and a zone suffix
Stamp(wall, suffix) == [wall |-> wall, suffix |-> suffix]

\* s.replace('Z', '+00:00')
ReplaceZ(ts) == IF ts.suffix = "Z" THEN [ts EXCEPT !.suffix = "+00:00"] ELSE ts

OffsetHours(suffix) ==
    CASE suffix = "+00:00" -> 0
      [] suffix = "+03:00" -> 3
      [] suffix = "-05:00" -> -5

\* datetime.fromisoformat(text): the instant, in hours UTC
FromIsoFormat(ts) == ts.wall - OffsetHours(ts.suffix)

\* faulty variant: the difference is rounded to the nearest day
DaysRounded(hours) == (hours + 12) \div 24

\* timedelta.days of a difference of hours (floor)
Days(hours) == hours \div 24

---------------------------------------------------------------------------
(* The remote fetcher *)

GitlabUrl == "http://gitlab"

ProjectId == "42"

Url(endpoint) == GitlabUrl \o "/api/v4" \o endpoint

\* the except branch: print the diagnostic, return None
Caught(endpoint, e) ==
    [raised |-> FALSE, value |-> None,
     diag |-> {[url |-> Url(endpoint), error |-> e]}]

\* faulty variant: only HTTP status errors are caught
MakeGitlabRequestNarrow(endpoint, resp) ==
    IF resp.exc # "none"
    THEN [raised |-> TRUE, value |-> None, diag |-> {}]
    ELSE IF ~(resp.status_code >= 200 /\ resp.status_code < 300)
    THEN Caught(endpoint, "HTTPStatusError")
    ELSE IF resp.body = Undecodable
    THEN [raised |-> TRUE, value |-> None, diag |-> {}]
    ELSE [raised |-> FALSE, value |-> resp.body, diag |-> {}]

\* make_gitlab_request: client.get, raise_for_status, response.json()
MakeGitlabRequest(endpoint, resp) ==
    IF resp.exc # "none"
    THEN Caught(endpoint, resp.exc)
    ELSE IF ~(resp.status_code >= 200 /\ resp.status_code < 300)
    THEN Caught(endpoint, "HTTPStatusError")
    ELSE IF resp.body = Undecodable
    THEN Caught(endpoint, "JSONDecodeError")
    ELSE [raised |-> FALSE, value |-> resp.body, diag |-> {}]

\* what the remote call can do when it does not deliver a decodable 2xx body
FailedResponses ==
    { [exc |-> "ConnectError", status_code |-> 0, body |-> None],
      [exc |-> "ReadTimeout", status_code |-> 0, body |-> None],
      [exc |-> "none", status_code |-> 404, body |-> None],
      [exc |-> "none", status_code |-> 200, body |-> Undecodable] }

OkResponse(body) == [exc |-> "none", status_code |-> 200, body |-> body]

IsFailure(resp) ==
    \/ resp.exc # "none"
    \/ ~(resp.status_code >= 200 /\ resp.status_code < 300)
    \/ resp.body = Undecodable

---------------------------------------------------------------------------
(* Batches: asyncio.gather over make_gitlab_request coroutines *)

NoResponse == [exc |-> "pending", status_code |-> 0, body |-> None]

\* gather wraps every coroutine of the list in a task before the caller suspends
Dispatch(endpoints) ==
    [i \in 1..Len(endpoints) |->
        [st |-> "scheduled", resp |-> NoResponse, ret |-> Pending]]

NoResults(endpoints) == [i \in 1..Len(endpoints) |-> Pending]

\* faulty variant: results are collected in the order the fetches finish
StoreResultOnArrival(res, i, value) ==
    LET free == {j \in DOMAIN res : res[j] = Pending}
        k == CHOOSE j \in free : \A m \in free : j <= m
    IN  [res EXCEPT ![k] = value]

\* gather keeps the result of child i at position i of its result list
StoreResult(res, i, value) == [res EXCEPT ![i] = value]

\* faulty variant: a fetch that came back empty-handed is put back on the loop
TaskStateAfterRetry(r) ==
    IF r.raised THEN "raised" ELSE IF r.value = None THEN "scheduled" ELSE "returned"

\* make_gitlab_request ends after one request, whatever its outcome
TaskStateAfter(r) == IF r.raised THEN "raised" ELSE "returned"

Finished(t) == t.st \in {"returned", "raised"}

\* faulty variant: the await resumes on the first finished request
JoinReadyFirst(tasks) == \E i \in DOMAIN tasks : Finished(tasks[i])

\* faulty variant: the await resumes as soon as the first request of the batch is back
JoinReadyLookup(tasks) == Finished(tasks[1])

\* the await on gather resumes once every child is finished
JoinReady(tasks) == \A i \in DOMAIN tasks : Finished(tasks[i])

CountUp(bag, e) ==
    IF e \in DOMAIN bag THEN [bag EXCEPT ![e] = @ + 1] ELSE bag @@ (e :> 1)

---------------------------------------------------------------------------
(* project_health_report *)

\* faulty variant: the open merge requests and issues are asked for by the hundred
PageSizeHundred == 10 * 10

\* per_page of the open merge-request and open issue requests
HealthPageSize == 10

HealthEndpoints(project_id) ==
    << "/projects/" \o project_id,
       "/projects/" \o project_id \o "/merge_requests?state=opened&per_page="
           \o ToString(HealthPageSize),
       "/projects/" \o project_id \o "/issues?state=opened&per_page="
           \o ToString(HealthPageSize),
       "/projects/" \o project_id \o "/pipelines?per_page=5",
       "/projects/" \o project_id \o "/events?per_page=20" >>

\* the warnings of the health assessment, in the order the code tests them
Penalties(activity_days, n_mrs, n_issues, pipelines) ==
    << [name |-> "inactive", hit |-> activity_days > 30, amount |-> 30],
       [name |-> "open_mrs", hit |-> n_mrs > 15, amount |-> 20],
       [name |-> "open_issues", hit |-> n_issues > 50, amount |-> 25],
       [name |-> "pipeline_failed",
        hit |-> /\ Len(pipelines) > 0
                /\ HasKey(pipelines[1], "status")
                /\ pipelines[1].status = "failed",
        amount |-> 15] >>

\* faulty variant: the tests are chained with elif, only the first hit counts
RECURSIVE ApplyFirstPenalty(_, _)
ApplyFirstPenalty(score, ps) ==
    IF ps = <<>> THEN score
    ELSE IF Head(ps).hit THEN score - Head(ps).amount
    ELSE ApplyFirstPenalty(score, Tail(ps))

\* faulty variant: a penalty is added instead of subtracted
RECURSIVE ApplyPenaltiesSign(_, _)
ApplyPenaltiesSign(score, ps) ==
    IF ps = <<>> THEN score
    ELSE ApplyPenaltiesSign(
            IF Head(ps).hit THEN score + Head(ps).amount ELSE score, Tail(ps))

\* the sequence of `if ...: health_score -= amount` statements
RECURSIVE ApplyPenalties(_, _)
ApplyPenalties(score, ps) ==
    IF ps = <<>> THEN score
    ELSE ApplyPenalties(
            IF Head(ps).hit THEN score - Head(ps).amount ELSE score, Tail(ps))

HealthScoreFirstOnly(ps) == ApplyFirstPenalty(100, ps)

HealthScoreSign(ps) == ApplyPenaltiesSign(100, ps)

HealthScore(ps) == ApplyPenalties(100, ps)

\* faulty variant: a score of exactly 80 is no longer excellent
HealthStatusStrict(score) ==
    IF score > 80 THEN "excellent"
    ELSE IF score >= 60 THEN "attention" ELSE "critical"

HealthStatus(score) ==
    IF score >= 80 THEN "excellent"
    ELSE IF score >= 60 THEN "attention" ELSE "critical"

HealthSummary(score) ==
    IF score >= 80 THEN "good_state"
    ELSE IF score >= 60 THEN "has_problems" ELSE "critical_state"

NotFound(project_id) == [kind |-> "not_found", project_id |-> project_id]

Raised(e) == [kind |-> "raised", error |-> e]

\* faulty variant: the project check is left out, an absent project reads as {}
ProjectMissingUnchecked(project_info) == FALSE

\* if not project_info
ProjectMissing(project_info) == ~Truthy(project_info)

\* the body of project_health_report after the gather
HealthReport(res, project_id, now) ==
    LET project_info  == res[1]
        open_mrs      == OrEmptyList(res[2])
        open_issues   == OrEmptyList(res[3])
        pipelines     == OrEmptyList(res[4])
        recent_events == OrEmptyList(res[5])
    IN
    IF ProjectMissing(project_info) THEN NotFound(project_id)
    ELSE IF project_info.t # "obj" THEN Raised("AttributeError")
    ELSE IF ~(IsList(open_mrs) /\ IsList(open_issues)
              /\ IsList(pipelines) /\ IsList(recent_events))
    THEN Raised("TypeError")
    ELSE
    LET info == project_info.v
        pipeline_status ==
            IF Len(pipelines.v) > 0
            THEN << DictGet(pipelines.v[1], "status", "unknown"),
                    DictGet(pipelines.v[1], "id", 0) >>
            ELSE << "unknown" >>
        activity_days ==
            IF HasKey(info, "last_activity_at")
            THEN Days(now - FromIsoFormat(ReplaceZ(info.last_activity_at)))
            ELSE 0
        ps == Penalties(activity_days, Len(open_mrs.v), Len(open_issues.v),
                        pipelines.v)
        health_score == HealthScore(ps)
    IN  [kind |-> "report",
         project_name |-> DictGet(info, "name", project_id),
         activity_days |-> activity_days,
         pipeline_status |-> pipeline_status,
         open_mrs |-> Len(open_mrs.v),
         open_issues |-> Len(open_issues.v),
         events_total |-> Len(recent_events.v),
         events_shown |-> SubSeq(recent_events.v, 1,
                                 IF Len(recent_events.v) < 5
                                 THEN Len(recent_events.v) ELSE 5),
         warnings |-> SelectSeq(ps, LAMBDA p : p.hit),
         health_score |-> health_score,
         health_status |-> HealthStatus(health_score),
         summary |-> HealthSummary(health_score)]

---------------------------------------------------------------------------
(* get_dora_metrics *)

\* a YYYY-MM-DD text is the number of its day; an argument left out is <<>>
NoDate == <<>>

\* datetime.strftime("%Y-%m-%d"): the time of day is dropped
Strftime(hours) == hours \div 24

\* datetime.strptime(text, "%Y-%m-%d"): midnight of that day
Strptime(day) == day * 24

Today == Strftime(NowUtc)

\* a quotient kept exact: num / den with den > 0
Ratio(num, den) == [num |-> num, den |-> den]

Zero == Ratio(0, 1)

RatLess(q, k) == q.num < k * q.den

RatGreater(q, k) == q.num > k * q.den

\* faulty variant: the floor of the divisor is left out
PyMaxDropped(a, b) == a

PyMax(a, b) == IF a >= b THEN a ELSE b

PyMin(a, b) == IF a <= b THEN a ELSE b

\* lines 66-69: the defaults of the window
StartDate(a) ==
    IF a.start_date = NoDate THEN Strftime(NowUtc - 30 * 24) ELSE a.start_date[1]

EndDate(a) == IF a.end_date = NoDate THEN Strftime(NowUtc) ELSE a.end_date[1]

DoraEndpoints(project_id, start_date, end_date) ==
    << "/projects/" \o project_id \o "/releases?per_page=100",
       "/projects/" \o project_id \o "/deployments?updated_after="
           \o ToString(start_date) \o "&updated_before=" \o ToString(end_date),
       "/projects/" \o project_id \o "/merge_requests?state=merged&updated_after="
           \o ToString(start_date) \o "&updated_before=" \o ToString(end_date),
       "/projects/" \o project_id \o "/issues?state=closed&labels=incident&created_after="
           \o ToString(start_date) >>

\* merge_requests[:50]
FirstFifty(s) == SubSeq(s, 1, PyMin(Len(s), 50))

\* the records of s that carry key k
WithKey(s, k) == SelectSeq(s, LAMBDA r : HasKey(r, k))

Elapsed(r, k) ==
    FromIsoFormat(ReplaceZ(r[k])) - FromIsoFormat(ReplaceZ(r.created_at))

\* faulty variant: a merge request without merged_at is averaged in as 0 days
LeadTimesUnfiltered(mrs) ==
    LET first == FirstFifty(mrs)
    IN  [i \in 1..Len(first) |->
            IF HasKey(first[i], "merged_at")
            THEN Days(Elapsed(first[i], "merged_at")) ELSE 0]

\* lead_times: whole days from created_at to merged_at
LeadTimes(mrs) ==
    LET merged == WithKey(FirstFifty(mrs), "merged_at")
    IN  [i \in 1..Len(merged) |-> Days(Elapsed(merged[i], "merged_at"))]

\* faulty variant: restore times are taken in whole days, like lead times
RestoreTimesInDays(incidents) ==
    LET closed == WithKey(incidents, "closed_at")
    IN  [i \in 1..Len(closed) |-> Days(Elapsed(closed[i], "closed_at"))]

\* restore_times: hours from created_at to closed_at
RestoreTimes(incidents) ==
    LET closed == WithKey(incidents, "closed_at")
    IN  [i \in 1..Len(closed) |-> Elapsed(closed[i], "closed_at")]

\* sum(xs) / len(xs) if xs else 0
\* faulty variant: the mean is taken without the test for an empty list
MeanUnguarded(xs) == Ratio(SumSeq(xs), Len(xs))

Mean(xs) == IF Len(xs) > 0 THEN Ratio(SumSeq(xs), Len(xs)) ELSE Zero

\* faulty variant: every deployment that is not a success counts as failed
FailedDeploymentsNotSuccess(deployments) ==
    Len(SelectSeq(deployments,
                  LAMBDA d : ~(HasKey(d, "status") /\ d.status = "success")))

FailedDeployments(deployments) ==
    Len(SelectSeq(deployments,
                  LAMBDA d : HasKey(d, "status") /\ d.status = "failed"))

\* faulty variant: the failure-rate rule is tested before the frequency rule
DevopsLevelFailureFirst(deployment_freq, avg_lead_time, change_failure_rate) ==
    LET first == IF RatGreater(change_failure_rate, 15) THEN "Low" ELSE "Elite"
    IN  IF RatLess(deployment_freq, 1)
        THEN (IF RatLess(avg_lead_time, 7) THEN "High" ELSE "Medium")
        ELSE first

\* faulty variant: a lead time of exactly 7 days still counts as short
DevopsLevelInclusive(deployment_freq, avg_lead_time, change_failure_rate) ==
    LET first == IF RatLess(deployment_freq, 1)
                 THEN (IF ~RatGreater(avg_lead_time, 7) THEN "High" ELSE "Medium")
                 ELSE "Elite"
    IN  IF RatGreater(change_failure_rate, 15) THEN "Low" ELSE first

\* lines 118-122; the levels are Elite, High, Medium, Low
DevopsLevel(deployment_freq, avg_lead_time, change_failure_rate) ==
    LET first == IF RatLess(deployment_freq, 1)
                 THEN (IF RatLess(avg_lead_time, 7) THEN "High" ELSE "Medium")
                 ELSE "Elite"
    IN  IF RatGreater(change_failure_rate, 15) THEN "Low" ELSE first

\* the body of get_dora_metrics after the gather
DoraReport(res, a) ==
    LET releases       == OrEmptyList(res[1])
        deployments    == OrEmptyList(res[2])
        merge_requests == OrEmptyList(res[3])
        incidents      == OrEmptyList(res[4])
    IN
    IF ~(IsList(releases) /\ IsList(deployments)
         /\ IsList(merge_requests) /\ IsList(incidents))
    THEN Raised("TypeError")
    ELSE IF \E i \in DOMAIN FirstFifty(merge_requests.v) :
                ~HasKey(merge_requests.v[i], "created_at")
    THEN Raised("KeyError")
    ELSE IF \E i \in DOMAIN incidents.v : ~HasKey(incidents.v[i], "created_at")
    THEN Raised("KeyError")
    ELSE
    LET days_period == Days(Strptime(EndDate(a)) - Strptime(StartDate(a)))
        deployment_freq == Ratio(Len(deployments.v), PyMax(days_period, 1))
        avg_lead_time == Mean(LeadTimes(merge_requests.v))
        avg_restore_time == Mean(RestoreTimes(incidents.v))
        failed_deployments == FailedDeployments(deployments.v)
        change_failure_rate ==
            IF Len(deployments.v) > 0
            THEN Ratio(failed_deployments * 100, Len(deployments.v))
            ELSE Zero
    IN  [kind |-> "report",
         start_date |-> StartDate(a),
         end_date |-> EndDate(a),
         days_period |-> days_period,
         deployment_freq |-> deployment_freq,
         avg_lead_time |-> avg_lead_time,
         avg_restore_time |-> avg_restore_time,
         change_failure_rate |-> change_failure_rate,
         devops_level |->
             DevopsLevel(deployment_freq, avg_lead_time, change_failure_rate),
         deployments |-> Len(deployments.v),
         failed_deployments |-> failed_deployments,
         releases |-> Len(releases.v),
         merge_requests |-> Len(merge_requests.v),
         incidents |-> Len(incidents.v)]

---------------------------------------------------------------------------
(* list_group_projects *)

GroupId == "7"

GroupEndpoints(group_id) == << "/groups/" \o group_id \o "/projects" >>

MetricsEndpoints(project_id) ==
    << "/projects/" \o project_id \o "/merge_requests?state=opened&per_page=1",
       "/projects/" \o project_id \o "/issues?state=opened&per_page=1",
       "/projects/" \o project_id \o "/pipelines?per_page=1" >>

\* the four lines printed for every project of the group
ProjectRow(project) ==
    [name |-> project.name, id |-> project.id,
     path |-> project.path_with_namespace,
     star_count |-> DictGet(project, "star_count", 0),
     forks_count |-> DictGet(project, "forks_count", 0),
     metrics |-> <<>>]

\* len(x) if x else 0
LenOrZero(x) == IF Truthy(x) THEN Len(x.v) ELSE 0

\* lines 506-508: the metrics of one project
ProjectMetrics(metrics_data) ==
    [open_mrs |-> LenOrZero(metrics_data[1]),
     open_issues |-> LenOrZero(metrics_data[2]),
     has_pipelines |-> Truthy(metrics_data[3])]

---------------------------------------------------------------------------
(* analyze_merge_requests *)

MrsEndpoints(project_id) == << "/projects/" \o project_id \o "/merge_requests" >>

\* faulty variant: an unknown timeframe falls back to the shortest look-back
TimeframeDaysShortest(timeframe) ==
    CASE timeframe = "week"    -> 7
      [] timeframe = "month"   -> 30
      [] timeframe = "quarter" -> 90
      [] OTHER                 -> 7

\* days_map.get(timeframe, 30)
TimeframeDays(timeframe) ==
    CASE timeframe = "week"    -> 7
      [] timeframe = "month"   -> 30
      [] timeframe = "quarter" -> 90
      [] OTHER                 -> 30

InState(s, state) == SelectSeq(s, LAMBDA r : r.state = state)

\* review_times: hours from created_at to merged_at of the merged requests
ReviewTimes(merged_mrs) ==
    LET timed == WithKey(WithKey(merged_mrs, "created_at"), "merged_at")
    IN  [i \in 1..Len(timed) |-> Elapsed(timed[i], "merged_at")]

MrSizes(merged_mrs) ==
    LET sized == WithKey(merged_mrs, "changes_count")
    IN  [i \in 1..Len(sized) |-> sized[i].changes_count]

\* faulty variant: the rate is taken over all merge requests, closed ones too
MergeRateOverAll(opened, merged, total) == Ratio(merged * 100, PyMax(total, 1))

\* line 275: merged / max(opened + merged, 1) * 100
MergeRate(opened, merged, total) == Ratio(merged * 100, PyMax(opened + merged, 1))

\* the body of analyze_merge_requests after the fetch
MrsReport(res, a) ==
    LET days == TimeframeDays(a.timeframe)
        mrs  == OrEmptyList(res[1])
    IN
    IF ~IsList(mrs) THEN Raised("TypeError")
    ELSE IF ~Truthy(mrs) THEN [kind |-> "no_data", days |-> days]
    ELSE IF \E i \in DOMAIN mrs.v : ~HasKey(mrs.v[i], "state") THEN Raised("KeyError")
    ELSE
    LET opened_mrs == InState(mrs.v, "opened")
        merged_mrs == InState(mrs.v, "merged")
        closed_mrs == InState(mrs.v, "closed")
        avg_review_time == Mean(ReviewTimes(merged_mrs))
        avg_mr_size == Mean(MrSizes(merged_mrs))
    IN  [kind |-> "report",
         days |-> days,
         total |-> Len(mrs.v),
         opened |-> Len(opened_mrs),
         merged |-> Len(merged_mrs),
         closed |-> Len(closed_mrs),
         merged_share |-> Ratio(Len(merged_mrs) * 100, Len(mrs.v)),
         avg_review_time |-> avg_review_time,
         avg_mr_size |-> avg_mr_size,
         merge_rate |-> MergeRate(Len(opened_mrs), Len(merged_mrs), Len(mrs.v)),
         advice |-> { w \in {"slow_review", "large_mrs", "many_open"} :
                        \/ w = "slow_review" /\ RatGreater(avg_review_time, 48)
                        \/ w = "large_mrs" /\ RatGreater(avg_mr_size, 500)
                        \/ w = "many_open" /\ Len(opened_mrs) > 10 }]

---------------------------------------------------------------------------
(* analyze_issues *)

IssuesEndpoints(project_id) == << "/projects/" \o project_id \o "/issues" >>

\* lines 413-420: the age group of an open issue, by its age in whole days
AgeGroup(age) ==
    IF age < 1 THEN "lt_1_day"
    ELSE IF age <= 7 THEN "d_1_7"
    ELSE IF age <= 30 THEN "w_1_4" ELSE "gt_1_month"

AgeGroups == {"lt_1_day", "d_1_7", "w_1_4", "gt_1_month"}

IssueAge(issue, now) == Days(now - FromIsoFormat(ReplaceZ(issue.created_at)))

IsCritical(issue) ==
    /\ issue.state = "opened"
    /\ \E l \in DictGet(issue, "labels", {}) : l \in {"critical", "severity::1"}

\* the body of analyze_issues after the fetch
IssuesReport(res, a, now) ==
    LET issues == OrEmptyList(res[1])
    IN
    IF ~IsList(issues) THEN Raised("TypeError")
    ELSE IF ~Truthy(issues) THEN [kind |-> "no_data", label |-> a.label]
    ELSE IF \E i \in DOMAIN issues.v : ~HasKey(issues.v[i], "state")
    THEN Raised("KeyError")
    ELSE IF \E i \in DOMAIN issues.v :
                issues.v[i].state = "opened" /\ ~HasKey(issues.v[i], "created_at")
    THEN Raised("KeyError")
    ELSE
    LET opened == InState(issues.v, "opened")
    IN  [kind |-> "report",
         label |-> a.label,
         total |-> Len(issues.v),
         opened |-> Len(opened),
         closed |-> Len(InState(issues.v, "closed")),
         age_groups |->
             [g \in AgeGroups |->
                 Len(SelectSeq(opened, LAMBDA r : AgeGroup(IssueAge(r, now)) = g))],
         labels |-> UNION { DictGet(issues.v[i], "labels", {}) : i \in DOMAIN issues.v },
         critical |-> Len(SelectSeq(issues.v, IsCritical))]

---------------------------------------------------------------------------
(* get_project_activity *)

ActivityEndpoints(project_id) == << "/projects/" \o project_id \o "/events" >>

\* get_project_info
ProjectInfoEndpoints(project_id) == << "/projects/" \o project_id >>

EventType(e) == DictGet(e, "action_name", "unknown")

\* event_counts: how many events carry each action name that occurs
EventCounts(events) ==
    [ty \in { EventType(events[i]) : i \in DOMAIN events } |->
        Len(SelectSeq(events, LAMBDA e : EventType(e) = ty))]

ImportantActions == {"pushed to", "merged", "created", "closed", "commented on"}

\* the body of get_project_activity once both of its fetches are back
ActivityReport(events, project, a) ==
    IF ~IsList(events) THEN Raised("TypeError")
    ELSE IF Truthy(project) /\ project.t # "obj" THEN Raised("AttributeError")
    ELSE IF \E i \in DOMAIN events.v : ~HasKey(events.v[i], "action_name")
    THEN Raised("KeyError")
    ELSE
    LET event_counts == EventCounts(events.v)
        important == SelectSeq(events.v, LAMBDA e : e.action_name \in ImportantActions)
    IN  [kind |-> "report",
         project_name |-> IF Truthy(project)
                          THEN DictGet(project.v, "name", a.project_id)
                          ELSE a.project_id,
         days |-> a.days,
         total |-> Len(events.v),
         types |-> Cardinality(DOMAIN event_counts),
         event_counts |-> event_counts,
         percentages |-> [ty \in DOMAIN event_counts |->
                            Ratio(event_counts[ty] * 100, Len(events.v))],
         recent_important |->
             [i \in 1..PyMin(Len(important), 5) |-> important[i].action_name]]

---------------------------------------------------------------------------
(* monitor_pipelines *)

PipelinesEndpoints(project_id) == << "/projects/" \o project_id \o "/pipelines" >>

PipelineStatusOf(p) == DictGet(p, "status", "unknown")

\* faulty variant: every pipeline that has not failed counts as successful
SuccessfulNotFailed(pipelines) ==
    Len(SelectSeq(pipelines, LAMBDA p : PipelineStatusOf(p) # "failed"))

\* successful: the pipelines whose status is success
Successful(pipelines) ==
    Len(SelectSeq(pipelines, LAMBDA p : PipelineStatusOf(p) = "success"))

\* status_counts: how many pipelines carry each status that occurs
StatusCounts(pipelines) ==
    [st \in { PipelineStatusOf(pipelines[i]) : i \in DOMAIN pipelines } |->
        Len(SelectSeq(pipelines, LAMBDA p : PipelineStatusOf(p) = st))]

DurationSum(pipelines) ==
    SumSeq([i \in 1..Len(pipelines) |-> DictGet(pipelines[i], "duration", 0)])

\* the body of monitor_pipelines after the fetch
PipelinesReport(res, a) ==
    LET pipelines == OrEmptyList(res[1])
    IN
    IF ~IsList(pipelines) THEN Raised("TypeError")
    ELSE IF ~Truthy(pipelines) THEN [kind |-> "no_data"]
    ELSE
    LET recent_pipelines == SubSeq(pipelines.v, 1, PyMin(Len(pipelines.v), 5))
        status_counts == StatusCounts(pipelines.v)
        success_rate ==
            IF Len(pipelines.v) > 0
            THEN Ratio(Successful(pipelines.v) * 100, Len(pipelines.v)) ELSE Zero
        avg_duration ==
            IF Len(pipelines.v) > 0
            THEN Ratio(DurationSum(pipelines.v), Len(pipelines.v)) ELSE Zero
    IN
    IF \E i \in DOMAIN recent_pipelines :
          ~(/\ HasKey(recent_pipelines[i], "status")
            /\ HasKey(recent_pipelines[i], "id")
            /\ HasKey(recent_pipelines[i], "ref"))
    THEN Raised("KeyError")
    ELSE [kind |-> "report",
          total |-> Len(pipelines.v),
          success_rate |-> success_rate,
          avg_duration |-> avg_duration,
          status_counts |-> status_counts,
          recent |-> [i \in 1..Len(recent_pipelines) |-> recent_pipelines[i].id],
          warnings |-> { w \in {"low_success_rate", "many_failed"} :
                           \/ w = "low_success_rate" /\ RatLess(success_rate, 80)
                           \/ w = "many_failed"
                              /\ "failed" \in DOMAIN status_counts
                              /\ status_counts["failed"] > 3 }]

---------------------------------------------------------------------------
(* The remote: the JSON bodies GitLab can answer with, per request *)

Item(i) == [id |-> i]

Items(n) == [i \in 1..n |-> Item(i)]

ProjectBodies ==
    { JObj([id |-> 42, name |-> "demo"]),
      JObj([id |-> 42, name |-> "demo",
            last_activity_at |-> Stamp(Clock - 5, "Z")]),
      JObj([id |-> 42, name |-> "demo",
            last_activity_at |-> Stamp(Clock - (30 * 24 + 23), "+00:00")]),
      JObj([id |-> 42, name |-> "demo",
            last_activity_at |-> Stamp(Clock - 31 * 24 + 3, "+03:00")]) }

PipelineBodies ==
    { JList(<<>>),
      JList(<< [id |-> 9, status |-> "failed"] >>),
      JList(<< [id |-> 9, status |-> "success"], [id |-> 8, status |-> "failed"] >>),
      JList(<< [id |-> 9] >>) }

EventBodies ==
    { JList(<<>>), JList(<< [action_name |-> "pushed to"] >>) }

HealthBodies(i) ==
    CASE i = 1 -> ProjectBodies
      [] i = 2 -> { JList(Items(n)) : n \in {0, 15, 16} }
      [] i = 3 -> { JList(Items(n)) : n \in {0, 50, 51} }
      [] i = 4 -> PipelineBodies
      [] i = 5 -> EventBodies

Deployment(i, status) == [id |-> i, status |-> status]

DeploymentBodies ==
    { JList(<<>>),
      JList(<< Deployment(1, "success") >>),
      JList(<< Deployment(1, "failed") >>),
      JList([i \in 1..7 |-> Deployment(i, IF i = 3 THEN "failed" ELSE "success")]) }

Created == Clock - 24 * 20

MergedMr(hours) ==
    [iid |-> 1, created_at |-> Stamp(Created, "Z"),
     merged_at |-> Stamp(Created + hours, "Z")]

MrBodies ==
    { JList(<<>>),
      JList(<< MergedMr(6 * 24 + 23) >>),
      JList(<< MergedMr(7 * 24) >>),
      JList(<< [iid |-> 1, created_at |-> Stamp(Created, "Z")] >>) }

IncidentBodies ==
    { JList(<<>>),
      JList(<< [iid |-> 2, created_at |-> Stamp(Created, "Z"),
                closed_at |-> Stamp(Created + 5, "Z")] >>) }

DoraBodies(i) ==
    CASE i = 1 -> { JList(<<>>), JList(<< [tag_name |-> "v1"] >>) }
      [] i = 2 -> DeploymentBodies
      [] i = 3 -> MrBodies
      [] i = 4 -> IncidentBodies

GroupProject(i) ==
    [id |-> i, name |-> "p" \o ToString(i),
     path_with_namespace |-> "g/p" \o ToString(i)]

GroupBodies == { JList([i \in 1..n |-> GroupProject(i)]) : n \in 0..MaxProjects }

MetricsBodies == { JList(<<>>), JList(<< Item(1) >>) }

\* the bodies request i of the current batch can be answered with
Bodies(o, r, i) ==
    CASE o = "health" -> HealthBodies(i)
      [] o = "dora"   -> DoraBodies(i)
      [] o = "group"  -> IF r = 1 THEN GroupBodies ELSE MetricsBodies
      [] o = "activity" -> ProjectBodies

Responses(o, r, i) == FailedResponses \cup { OkResponse(b) : b \in Bodies(o, r, i) }

---------------------------------------------------------------------------
(* Initial state: a tool is about to be called *)

DoraArgs ==
    { [project_id |-> ProjectId, start_date |-> s, end_date |-> e] :
        <<s, e>> \in { <<NoDate, NoDate>>, << <<Today>>, <<Today>> >>,
                       << <<Today - 1>>, NoDate >>, << <<Today>>, <<Today - 3>> >> } }

HealthArgs == { [project_id |-> ProjectId] }

GroupArgs == { [group_id |-> GroupId, with_metrics |-> m] : m \in BOOLEAN }

ArgsOf(o) ==
    CASE o = "dora"   -> DoraArgs
      [] o = "health" -> HealthArgs
      [] o = "group"  -> GroupArgs

Init ==
    /\ op \in {"dora", "health", "group"}
    /\ args \in ArgsOf(op)
    /\ pc = "call"
    /\ round = 0
    /\ batch = <<>>
    /\ task = <<>>
    /\ results = <<>>
    /\ sent = <<>>
    /\ log = {}
    /\ out = [kind |-> "none"]

---------------------------------------------------------------------------
(* Steps of the event loop *)

\* results = await asyncio.gather(*[make_gitlab_request(e) for e in endpoints])
Await(endpoints) ==
    /\ batch' = endpoints
    /\ task' = Dispatch(endpoints)
    /\ results' = NoResults(endpoints)
    /\ round' = round + 1
    /\ pc' = "wait"

\* a scheduled request runs up to client.get: the GET is issued
Start(i) ==
    /\ pc = "wait"
    /\ task[i].st = "scheduled"
    /\ task' = [task EXCEPT ![i].st = "inflight"]
    /\ sent' = CountUp(sent, batch[i])
    /\ UNCHANGED <<op, args, pc, round, batch, results, log, out>>

\* the remote answers (or fails) and make_gitlab_request returns
Complete(i) ==
    /\ pc = "wait"
    /\ task[i].st = "inflight"
    /\ \E resp \in Responses(op, round, i) :
          LET r == MakeGitlabRequest(batch[i], resp)
          IN  /\ task' = [task EXCEPT ![i] =
                            [st |-> TaskStateAfter(r), resp |-> resp, ret |-> r.value]]
              /\ results' = IF r.raised THEN results
                            ELSE StoreResult(results, i, r.value)
              /\ log' = log \cup r.diag
    /\ UNCHANGED <<op, args, pc, round, batch, sent, out>>

\* the await resumes; an exception of a child is raised into the caller
Join ==
    /\ pc = "wait"
    /\ JoinReady(task)
    /\ IF \E i \in DOMAIN task : task[i].st = "raised"
       THEN pc' = "done" /\ out' = Raised("Exception")
       ELSE pc' = "run" /\ out' = out
    /\ UNCHANGED <<op, args, round, batch, task, results, sent, log>>

DoraInvoke ==
    /\ pc = "call" /\ op = "dora"
    /\ Await(DoraEndpoints(args.project_id, StartDate(args), EndDate(args)))
    /\ UNCHANGED <<op, args, sent, log, out>>

DoraFinish ==
    /\ pc = "run" /\ op = "dora"
    /\ out' = DoraReport(results, args)
    /\ pc' = "done"
    /\ UNCHANGED <<op, args, round, batch, task, results, sent, log>>

HealthInvoke ==
    /\ pc = "call" /\ op = "health"
    /\ Await(HealthEndpoints(args.project_id))
    /\ UNCHANGED <<op, args, sent, log, out>>

HealthFinish ==
    /\ pc = "run" /\ op = "health"
    /\ out' = HealthReport(results, args.project_id, NowUtc)
    /\ pc' = "done"
    /\ UNCHANGED <<op, args, round, batch, task, results, sent, log>>

\* projects = await make_gitlab_request(f"/groups/{group_id}/projects", ...)
GroupInvoke ==
    /\ pc = "call" /\ op = "group"
    /\ Await(GroupEndpoints(args.group_id))
    /\ UNCHANGED <<op, args, sent, log, out>>

\* lines 476-504: the listing is back; the loop runs to its first await
GroupListed ==
    /\ pc = "run" /\ op = "group" /\ round = 1
    /\ LET projects == OrEmptyList(results[1])
       IN  IF ~Truthy(projects)
           THEN /\ out' = [kind |-> "no_projects"]
                /\ pc' = "done"
                /\ UNCHANGED <<round, batch, task, results>>
           ELSE IF ~args.with_metrics
           THEN /\ out' = [kind |-> "report", total |-> Len(projects.v),
                           rows |-> [i \in 1..Len(projects.v) |->
                                        ProjectRow(projects.v[i])]]
                /\ pc' = "done"
                /\ UNCHANGED <<round, batch, task, results>>
           ELSE /\ out' = [kind |-> "building", projects |-> projects.v,
                           rows |-> << ProjectRow(projects.v[1]) >>]
                /\ Await(MetricsEndpoints(ToString(projects.v[1].id)))
    /\ UNCHANGED <<op, args, sent, log>>

\* lines 504-515: the metrics of one project are back; on to the next project
GroupMetrics ==
    /\ pc = "run" /\ op = "group" /\ round > 1
    /\ LET k == round - 1
           rows == [out.rows EXCEPT ![k].metrics = << ProjectMetrics(results) >>]
       IN  IF k < Len(out.projects)
           THEN /\ out' = [out EXCEPT
                             !.rows = Append(rows, ProjectRow(out.projects[k + 1]))]
                /\ Await(MetricsEndpoints(ToString(out.projects[k + 1].id)))
           ELSE /\ out' = [kind |-> "report", total |-> Len(out.projects),
                           rows |-> rows]
                /\ pc' = "done"
                /\ UNCHANGED <<round, batch, task, results>>
    /\ UNCHANGED <<op, args, sent, log>>

Next ==
    \/ DoraInvoke
    \/ DoraFinish
    \/ HealthInvoke
    \/ HealthFinish
    \/ GroupInvoke
    \/ GroupListed
    \/ GroupMetrics
    \/ \E i \in DOMAIN task : Start(i)
    \/ \E i \in DOMAIN task : Complete(i)
    \/ Join

Spec == Init /\ [][Next]_vars

---------------------------------------------------------------------------
(* The derivations on their own: every tool resumed after its fetches, over *)
(* a wider range of fetched collections, records with missing fields and    *)
(* zone offsets included                                                    *)

OpenMr == [iid |-> 2, created_at |-> Stamp(Created, "Z")]

WideMrBodies ==
    MrBodies \cup
    { JList(<< MergedMr(36) >>),
      JList(<< MergedMr(36), OpenMr >>),
      JList(<< MergedMr(5), MergedMr(23) >>),
      JList([i \in 1..10 |-> MergedMr(48)]),
      JList([i \in 1..51 |-> IF i <= 50 THEN MergedMr(48) ELSE MergedMr(20 * 24)]),
      JList([i \in 1..51 |-> IF i <= 50 THEN OpenMr ELSE MergedMr(20 * 24)]),
      JList(<< [iid |-> 1, created_at |-> Stamp(Created, "+03:00"),
                merged_at |-> Stamp(Created + 24, "Z")] >>),
      JList(<< [iid |-> 1, merged_at |-> Stamp(Created, "Z")] >>) }

Incident(hours, suffix) ==
    [iid |-> 2, created_at |-> Stamp(Created, suffix),
     closed_at |-> Stamp(Created + hours, suffix)]

OpenIncident == [iid |-> 3, created_at |-> Stamp(Created, "Z")]

WideIncidentBodies ==
    IncidentBodies \cup
    { JList(<< OpenIncident >>),
      JList(<< Incident(5, "Z"), Incident(30, "+03:00"), OpenIncident >>),
      JList(<< Incident(5, "Z"), [iid |-> 4, closed_at |-> Stamp(Created, "Z")] >>) }

WideDeploymentBodies ==
    DeploymentBodies \cup
    { JList(<< [id |-> 1] >>),
      JList(<< Deployment(1, "success"), [id |-> 2], Deployment(3, "failed") >>) }

WideDoraBodies(i) ==
    CASE i = 1 -> DoraBodies(1)
      [] i = 2 -> WideDeploymentBodies
      [] i = 3 -> WideMrBodies
      [] i = 4 -> WideIncidentBodies

MrStates == {"opened", "merged", "closed"}

\* a merge request as analyze_merge_requests reads it
Mr(i, state) ==
    IF state = "merged"
    THEN [iid |-> i, state |-> state, created_at |-> Stamp(Created, "Z"),
          merged_at |-> Stamp(Created + 24 * i, "Z"), changes_count |-> 300 * i]
    ELSE [iid |-> i, state |-> state, created_at |-> Stamp(Created, "Z")]

MrsBodies ==
    { JList([i \in 1..Len(st) |-> Mr(i, st[i])]) :
        st \in UNION { [1..k -> MrStates] : k \in 0..MaxMrs } }

IssueAges == { 5, 24, 7 * 24 + 23, 8 * 24, 30 * 24 + 23, 31 * 24 }

\* an issue as analyze_issues reads it; age 0 stands for a record without created_at
Issue(i, state, age) ==
    IF age = 0
    THEN [iid |-> i, title |-> "t", state |-> state]
    ELSE [iid |-> i, title |-> "t", state |-> state, labels |-> {"bug"},
          created_at |-> Stamp(Clock - age, IF i = 1 THEN "Z" ELSE "+00:00")]

IssueKinds == {"opened", "closed"} \X (IssueAges \cup {0})

IssuesBodies ==
    { JList([i \in 1..Len(ks) |-> Issue(i, ks[i][1], ks[i][2])]) :
        ks \in UNION { [1..k -> IssueKinds] : k \in 0..MaxIssues } }

PipelineStatuses == {"success", "failed", "running"}

\* a pipeline as monitor_pipelines reads it
Pipeline(i, status) ==
    [id |-> i, status |-> status, ref |-> "main", duration |-> 60 * i]

MonitorBodies ==
    { JList([i \in 1..Len(st) |-> Pipeline(i, st[i])]) :
        st \in UNION { [1..k -> PipelineStatuses] : k \in 0..MaxPipelines } }
    \cup { JList([i \in 1..6 |-> Pipeline(i, IF i = 6 THEN "success" ELSE "failed")]),
           JList(<< [id |-> 1, status |-> "success", ref |-> "main"] >>),
           JList(<< Pipeline(1, "success"), [id |-> 2, ref |-> "main"] >>) }

Event(action) == [action_name |-> action, author |-> [username |-> "dev"]]

ActivityBodies ==
    { JList(<<>>),
      JList(<< Event("pushed to") >>),
      JList(<< Event("pushed to"), Event("joined"), Event("merged"), Event("pushed to") >>),
      JList(<< Event("joined") >>),
      JList(<< Event("pushed to"), [author |-> [username |-> "dev"]] >>) }

ActivityArgs == { [project_id |-> ProjectId, days |-> d] : d \in {7, 30} }

PipelinesArgs == { [project_id |-> ProjectId, limit |-> l] : l \in {5, 20} }

MrsArgs ==
    { [project_id |-> ProjectId, timeframe |-> t] :
        t \in {"week", "month", "quarter", "year"} }

IssuesArgs == { [project_id |-> ProjectId, label |-> l] : l \in {"", "bug"} }

DerivedOps == {"dora", "health", "mrs", "issues", "pipelines", "activity"}

DerivedArgsOf(o) ==
    CASE o = "dora"   -> DoraArgs
      [] o = "health" -> HealthArgs
      [] o = "mrs"    -> MrsArgs
      [] o = "issues" -> IssuesArgs
      [] o = "pipelines" -> PipelinesArgs
      [] o = "activity" -> ActivityArgs

EndpointsOf(o, a) ==
    CASE o = "dora"   -> DoraEndpoints(a.project_id, StartDate(a), EndDate(a))
      [] o = "health" -> HealthEndpoints(a.project_id)
      [] o = "mrs"    -> MrsEndpoints(a.project_id)
      [] o = "issues" -> IssuesEndpoints(a.project_id)
      [] o = "pipelines" -> PipelinesEndpoints(a.project_id)
      [] o = "activity" -> ActivityEndpoints(a.project_id)

\* also answers that fill the requested page exactly
WideHealthBodies(i) ==
    IF i \in {2, 3} THEN HealthBodies(i) \cup { JList(Items(HealthPageSize)) }
    ELSE HealthBodies(i)

WideBodies(o, i) ==
    CASE o = "dora"   -> WideDoraBodies(i)
      [] o = "health" -> WideHealthBodies(i)
      [] o = "mrs"    -> MrsBodies
      [] o = "issues" -> IssuesBodies
      [] o = "pipelines" -> MonitorBodies
      [] o = "activity" -> ActivityBodies

NotFoundResponse == [exc |-> "none", status_code |-> 404, body |-> None]

\* the answers one batch can get: per request a body, or the request fails
WideResponses(o, i) == {NotFoundResponse} \cup { OkResponse(b) : b \in WideBodies(o, i) }

RECURSIVE Answers(_, _)
Answers(o, n) ==
    IF n = 0 THEN { <<>> }
    ELSE { Append(rs, r) : rs \in Answers(o, n - 1), r \in WideResponses(o, n) }

\* the state in which the await of the tool's batch has just resumed
Resumed(endpoints, rs) ==
    /\ batch = endpoints
    /\ task = [i \in 1..Len(endpoints) |->
                 [st |-> TaskStateAfter(MakeGitlabRequest(endpoints[i], rs[i])),
                  resp |-> rs[i],
                  ret |-> MakeGitlabRequest(endpoints[i], rs[i]).value]]
    /\ results = [i \in 1..Len(endpoints) |->
                    MakeGitlabRequest(endpoints[i], rs[i]).value]
    /\ sent = [e \in { endpoints[i] : i \in 1..Len(endpoints) } |-> 1]
    /\ log = UNION { MakeGitlabRequest(endpoints[i], rs[i]).diag :
                       i \in 1..Len(endpoints) }

DerivedInit ==
    /\ op \in DerivedOps
    /\ args \in DerivedArgsOf(op)
    /\ pc = "run"
    /\ round = 1
    /\ out = [kind |-> "none"]
    /\ \E rs \in Answers(op, Len(EndpointsOf(op, args))) :
          Resumed(EndpointsOf(op, args), rs)

MrsFinish ==
    /\ pc = "run" /\ op = "mrs"
    /\ out' = MrsReport(results, args)
    /\ pc' = "done"
    /\ UNCHANGED <<op, args, round, batch, task, results, sent, log>>

IssuesFinish ==
    /\ pc = "run" /\ op = "issues"
    /\ out' = IssuesReport(results, args, NowUtc)
    /\ pc' = "done"
    /\ UNCHANGED <<op, args, round, batch, task, results, sent, log>>

PipelinesFinish ==
    /\ pc = "run" /\ op = "pipelines"
    /\ out' = PipelinesReport(results, args)
    /\ pc' = "done"
    /\ UNCHANGED <<op, args, round, batch, task, results, sent, log>>

\* lines 162-174: the events are back and counted; the project is looked up
ActivityCounted ==
    /\ pc = "run" /\ op = "activity" /\ round = 1
    /\ out' = [kind |-> "building", events |-> OrEmptyList(results[1])]
    /\ Await(ProjectInfoEndpoints(args.project_id))
    /\ UNCHANGED <<op, args, sent, log>>

\* lines 175-201: the project is back; the report is put together
ActivityFinish ==
    /\ pc = "run" /\ op = "activity" /\ round = 2
    /\ out' = ActivityReport(out.events, results[1], args)
    /\ pc' = "done"
    /\ UNCHANGED <<op, args, round, batch, task, results, sent, log>>

DerivedNext ==
    \/ DoraFinish
    \/ HealthFinish
    \/ MrsFinish
    \/ IssuesFinish
    \/ PipelinesFinish
    \/ ActivityCounted
    \/ ActivityFinish
    \/ \E i \in DOMAIN task : Start(i)
    \/ \E i \in DOMAIN task : Complete(i)
    \/ Join

SpecDerived == DerivedInit /\ [][DerivedNext]_vars

---------------------------------------------------------------------------
(* Two invocations on one event loop.  Every variable that is a local of   *)
(* the coroutine holds one value per invocation; the remote (sent) and the *)
(* standard output (log) are the only things both invocations touch.       *)

Invocations == {1, 2}

PairOps == {"health", "dora", "pipelines"}

PairArgs(o) ==
    CASE o = "health"    -> [project_id |-> ProjectId]
      [] o = "dora"      -> [project_id |-> ProjectId,
                             start_date |-> NoDate, end_date |-> NoDate]
      [] o = "pipelines" -> [project_id |-> ProjectId, limit |-> 20]

\* the body a request is answered with when it is answered
PairBody(o, i) ==
    CASE o = "health" ->
           << JObj([id |-> 42, name |-> "demo"]), JList(Items(16)), JList(Items(3)),
              JList(<< [id |-> 9, status |-> "failed"] >>),
              JList(<< [action_name |-> "pushed to"] >>) >>[i]
      [] o = "dora" ->
           << JList(<< [tag_name |-> "v1"] >>), JList(<< Deployment(1, "failed") >>),
              JList(<< MergedMr(7 * 24) >>), JList(<< Incident(5, "Z") >>) >>[i]
      [] o = "pipelines" -> JList(<< Pipeline(1, "success"), Pipeline(2, "failed") >>)

PairResponses(o, i) == { NotFoundResponse, OkResponse(PairBody(o, i)) }

\* the result of tool o for the fetches res
ResultOf(o, res, a) ==
    CASE o = "dora"      -> DoraReport(res, a)
      [] o = "health"    -> HealthReport(res, a.project_id, NowUtc)
      [] o = "pipelines" -> PipelinesReport(res, a)

\* faulty variant: the results are kept in one list that all invocations share
PairStoreShared(res, k, i, value) ==
    [j \in DOMAIN res |->
        IF i \in DOMAIN res[j] THEN [res[j] EXCEPT ![i] = value] ELSE res[j]]

\* gather of invocation k keeps the result of its child i in its own list
PairStore(res, k, i, value) == [res EXCEPT ![k] = StoreResult(res[k], i, value)]

PairInit ==
    /\ op \in { o \in [Invocations -> PairOps] : o[2] = "pipelines" \/ o = << "dora", "dora" >> }
    /\ args = [k \in Invocations |-> PairArgs(op[k])]
    /\ pc = [k \in Invocations |-> "call"]
    /\ round = [k \in Invocations |-> 0]
    /\ batch = [k \in Invocations |-> <<>>]
    /\ task = [k \in Invocations |-> <<>>]
    /\ results = [k \in Invocations |-> <<>>]
    /\ out = [k \in Invocations |-> [kind |-> "none"]]
    /\ sent = <<>>
    /\ log = {}

\* invocation k runs to its await on gather
PairInvoke(k) ==
    /\ pc[k] = "call"
    /\ LET endpoints == EndpointsOf(op[k], args[k])
       IN  /\ batch' = [batch EXCEPT ![k] = endpoints]
           /\ task' = [task EXCEPT ![k] = Dispatch(endpoints)]
           /\ results' = [results EXCEPT ![k] = NoResults(endpoints)]
    /\ round' = [round EXCEPT ![k] = @ + 1]
    /\ pc' = [pc EXCEPT ![k] = "wait"]
    /\ UNCHANGED <<op, args, sent, log, out>>

PairStart(k, i) ==
    /\ pc[k] = "wait"
    /\ task[k][i].st = "scheduled"
    /\ task' = [task EXCEPT ![k][i].st = "inflight"]
    /\ sent' = CountUp(sent, batch[k][i])
    /\ UNCHANGED <<op, args, pc, round, batch, results, log, out>>

PairComplete(k, i) ==
    /\ pc[k] = "wait"
    /\ task[k][i].st = "inflight"
    /\ \E resp \in PairResponses(op[k], i) :
          LET r == MakeGitlabRequest(batch[k][i], resp)
          IN  /\ task' = [task EXCEPT ![k][i] =
                            [st |-> TaskStateAfter(r), resp |-> resp, ret |-> r.value]]
              /\ results' = PairStore(results, k, i, r.value)
              /\ log' = log \cup r.diag
    /\ UNCHANGED <<op, args, pc, round, batch, sent, out>>

PairJoin(k) ==
    /\ pc[k] = "wait"
    /\ JoinReady(task[k])
    /\ pc' = [pc EXCEPT ![k] = "run"]
    /\ UNCHANGED <<op, args, round, batch, task, results, sent, log, out>>

PairFinish(k) ==
    /\ pc[k] = "run"
    /\ out' = [out EXCEPT ![k] = ResultOf(op[k], results[k], args[k])]
    /\ pc' = [pc EXCEPT ![k] = "done"]
    /\ UNCHANGED <<op, args, round, batch, task, results, sent, log>>

PairNext ==
    \E k \in Invocations :
        \/ PairInvoke(k)
        \/ \E i \in DOMAIN task[k] : PairStart(k, i)
        \/ \E i \in DOMAIN task[k] : PairComplete(k, i)
        \/ PairJoin(k)
        \/ PairFinish(k)

SpecPair == PairInit /\ [][PairNext]_vars

---------------------------------------------------------------------------
(* Properties *)

DoraReported == op = "dora" /\ pc = "done" /\ out.kind = "report"

HealthDone == op = "health" /\ pc = "done"

HealthReported == HealthDone /\ out.kind = "report"

\* C1: in get_dora_metrics a change-failure rate above 15 always gives the
\* level Low, whatever the deployment frequency and the lead time are: the
\* failure-rate rule is applied last and overrides the earlier level.
C1_FailureRateForcesLow ==
    (DoraReported /\ out.change_failure_rate.num > 15 * out.change_failure_rate.den)
        => out.devops_level = "Low"

\* a report where the frequency rule alone would have said Medium
C1_Witness ==
    /\ DoraReported
    /\ out.change_failure_rate.num > 15 * out.change_failure_rate.den
    /\ out.deployment_freq.num < out.deployment_freq.den
    /\ out.avg_lead_time.num >= 7 * out.avg_lead_time.den
    /\ out.devops_level = "Low"

\* C2: with a change-failure rate of at most 15 the level is one of Elite,
\* High, Medium: Elite iff frequency >= 1 per day, High iff frequency < 1 and
\* lead time < 7 days, Medium iff frequency < 1 and lead time >= 7 days.
C2_LevelByFrequencyAndLeadTime ==
    (DoraReported /\ out.change_failure_rate.num <= 15 * out.change_failure_rate.den)
        => LET slow == out.deployment_freq.num < out.deployment_freq.den
               short == out.avg_lead_time.num < 7 * out.avg_lead_time.den
           IN  /\ out.devops_level \in {"Elite", "High", "Medium"}
               /\ (out.devops_level = "Elite") <=> ~slow
               /\ (out.devops_level = "High") <=> (slow /\ short)
               /\ (out.devops_level = "Medium") <=> (slow /\ ~short)

\* a lead time of exactly 7 days with some, but few, failed deployments
C2_Witness ==
    /\ DoraReported
    /\ out.change_failure_rate.num > 0
    /\ out.change_failure_rate.num <= 15 * out.change_failure_rate.den
    /\ out.deployment_freq.num < out.deployment_freq.den
    /\ out.avg_lead_time.num = 7 * out.avg_lead_time.den
    /\ out.devops_level = "Medium"

\* C3: when the project lookup of project_health_report comes back absent the
\* operation ends with the not-found outcome and nothing else: no indicator,
\* score or band, whatever the other four fetches returned.
C3_AbsentProjectIsNotFound ==
    (HealthDone /\ IsFailure(task[1].resp))
        => out = [kind |-> "not_found", project_id |-> args.project_id]

\* the project lookup failed while the four other fetches all brought data
C3_Witness ==
    /\ HealthDone
    /\ IsFailure(task[1].resp)
    /\ \A i \in 2..5 : ~IsFailure(task[i].resp) /\ Len(results[i].v) > 0
    /\ out.kind = "not_found"

\* what a fetched list contributes on its own: its length, 0 when absent
CountOf(x) == IF x = None THEN 0 ELSE Len(x.v)

\* the status line of the latest pipeline, "unknown" when there is none
StatusOf(x) ==
    IF x = None \/ Len(x.v) = 0 THEN << "unknown" >>
    ELSE << (IF "status" \in DOMAIN x.v[1] THEN x.v[1].status ELSE "unknown"),
            x.v[1].id >>

WarningNames(o) == { o.warnings[i].name : i \in DOMAIN o.warnings }

\* C4: when the project lookup succeeds a full report with score and band is
\* produced even if other fetches are absent; the indicators of an absent
\* fetch take their defaults (count 0, no events, pipeline status unknown) and
\* every indicator depends on its own fetch only.
C4_AbsentFetchDefaults ==
    (HealthDone /\ ~IsFailure(task[1].resp))
        => /\ out.kind = "report"
           /\ out.health_score \in Int
           /\ out.health_status \in {"excellent", "attention", "critical"}
           /\ out.open_mrs = CountOf(results[2])
           /\ out.open_issues = CountOf(results[3])
           /\ out.pipeline_status = StatusOf(results[4])
           /\ out.events_total = CountOf(results[5])
           /\ Len(out.events_shown) <= CountOf(results[5])
           /\ ("open_mrs" \in WarningNames(out)) <=> (CountOf(results[2]) > 15)
           /\ ("open_issues" \in WarningNames(out)) <=> (CountOf(results[3]) > 50)
           /\ ("pipeline_failed" \in WarningNames(out))
                  <=> (StatusOf(results[4])[1] = "failed")

\* exactly one of the four fetches is absent, the others brought data
C4_Witness ==
    /\ HealthReported
    /\ \E j \in 2..5 :
          /\ IsFailure(task[j].resp) /\ results[j] = None
          /\ \A i \in (2..5) \ {j} : ~IsFailure(task[i].resp) /\ Len(results[i].v) > 0
    /\ out.open_mrs + out.open_issues + out.events_total > 0

\* the error make_gitlab_request names in its diagnostic
ErrorOf(resp) ==
    IF resp.exc # "none" THEN resp.exc
    ELSE IF resp.status_code < 200 \/ resp.status_code > 299 THEN "HTTPStatusError"
    ELSE "JSONDecodeError"

\* C5: make_gitlab_request never raises: on a transport error, a timeout, a
\* non-2xx status or an undecodable body it returns None and prints a
\* diagnostic with the URL and the error; on success it returns the JSON.
C5_FetchNeverRaises ==
    /\ out.kind # "raised"
    /\ \A i \in DOMAIN task :
          Finished(task[i]) =>
             /\ task[i].st = "returned"
             /\ IsFailure(task[i].resp) =>
                   /\ task[i].ret = None
                   /\ [url |-> GitlabUrl \o "/api/v4" \o batch[i],
                       error |-> ErrorOf(task[i].resp)] \in log
             /\ ~IsFailure(task[i].resp) =>
                   /\ task[i].ret = task[i].resp.body
                   /\ \A d \in log : d.url # GitlabUrl \o "/api/v4" \o batch[i]

\* one batch that saw every kind of failure and one success
C5_Witness ==
    /\ op = "health" /\ pc = "run"
    /\ task[1].resp.exc = "none" /\ task[1].resp.status_code = 200
    /\ task[1].ret.t = "obj"
    /\ task[2].resp.exc = "ConnectError"
    /\ task[3].resp.exc = "ReadTimeout"
    /\ task[4].resp.exc = "none" /\ task[4].resp.status_code = 404
    /\ task[5].resp.status_code = 200 /\ task[5].resp.body = Undecodable
    /\ Cardinality(log) = 4

\* what request i contributes to the batch: the decoded body, None on failure
OutcomeOf(resp) == IF IsFailure(resp) THEN None ELSE resp.body

\* C6: the result sequence of a batch has one entry per request and entry i
\* is the outcome of request i, in whatever order the fetches finish.
C6_ResultsKeepRequestOrder ==
    /\ Len(results) = Len(batch)
    /\ \A i \in DOMAIN task :
          results[i] = IF Finished(task[i]) THEN OutcomeOf(task[i].resp) ELSE Pending

\* the last request finished while the first is still in flight
C6_Witness ==
    /\ op = "health" /\ pc = "wait"
    /\ task[5].st = "returned" /\ ~IsFailure(task[5].resp)
    /\ results[5] = task[5].resp.body
    /\ task[4].st = "returned" /\ results[4] = None
    /\ \A i \in 1..3 : ~Finished(task[i]) /\ results[i] = Pending

\* nothing has been derived from the batch being awaited
NothingDerived ==
    IF op = "group"
    THEN round > 1 => /\ out.kind = "building"
                      /\ Len(out.rows) = round - 1
                      /\ out.rows[round - 1].metrics = <<>>
    ELSE out.kind = "none"

\* C7: all requests of a batch are dispatched together before the caller
\* suspends, and nothing is derived until every request of the batch has
\* completed or failed: partial arrivals are never processed.
C7_JoinBeforeDerivation ==
    /\ pc = "wait" => /\ DOMAIN task = DOMAIN batch
                      /\ NothingDerived
    /\ pc \in {"run", "done"} => \A i \in DOMAIN task : Finished(task[i])

\* some requests are back and some are not; the report is untouched
C7_Witness ==
    /\ op = "dora" /\ pc = "wait"
    /\ Finished(task[2]) /\ Finished(task[4])
    /\ task[1].st = "scheduled" /\ task[3].st = "inflight"
    /\ out.kind = "none"

\* every endpoint is requested at most once, and once the await is over
\* every request of the batch was issued once and ran to its end
RequestedOnce ==
    /\ \A e \in DOMAIN sent : sent[e] <= 1
    /\ \A i \in DOMAIN task :
          task[i].st # "scheduled" => (batch[i] \in DOMAIN sent /\ sent[batch[i]] = 1)
    /\ pc \in {"run", "done"} => \A i \in DOMAIN task : task[i].st = "returned"

\* the tool returned its normal result: the report, or its no-data message
Produced == out.kind \in {"report", "no_projects"}

PenaltySum(o) ==
    (IF o.activity_days > 30 THEN 30 ELSE 0)
    + (IF o.open_mrs > 15 THEN 20 ELSE 0)
    + (IF o.open_issues > 50 THEN 25 ELSE 0)
    + (IF o.pipeline_status[1] = "failed" THEN 15 ELSE 0)

Orders == { p \in [1..4 -> 1..4] : \A i, j \in 1..4 : p[i] = p[j] => i = j }

\* C9: the health score is 100 minus the penalties whose predicates hold
\* (inactivity > 30 days: 30, open MRs > 15: 20, open issues > 50: 25, latest
\* pipeline failed: 15); each is taken at most once, they stack, and the
\* order in which the predicates are tested does not change the score.
C9_ScoreIsHundredMinusPenalties ==
    HealthReported =>
        /\ out.health_score = 100 - PenaltySum(out)
        /\ \A i, j \in DOMAIN out.warnings :
              out.warnings[i].name = out.warnings[j].name => i = j
        /\ LET ps == Penalties(out.activity_days, out.open_mrs, out.open_issues,
                               OrEmptyList(results[4]).v)
           IN  \A p \in Orders :
                  ApplyPenalties(100, [i \in 1..4 |-> ps[p[i]]]) = out.health_score

\* all four penalties at once
C9_Witness ==
    /\ HealthReported
    /\ out.activity_days > 30 /\ out.open_mrs > 15 /\ out.open_issues > 50
    /\ out.pipeline_status[1] = "failed"
    /\ Len(out.warnings) = 4
    /\ out.health_score = 10

\* C10: the reported health score is an integer from 0 to 100 for every
\* combination of fetched inputs.
C10_ScoreWithinRange ==
    HealthReported => out.health_score \in 0..100

\* two penalties stack to a critical score while the page sizes are honoured
C10_Witness ==
    /\ HealthReported
    /\ out.health_score = 55
    /\ out.health_status = "critical"
    /\ out.open_mrs <= 15 /\ out.open_issues <= 50

\* the penalty predicates that hold for the indicators of a report
TruePredicates(o) ==
    { n \in {"inactive", "open_mrs", "open_issues", "pipeline_failed"} :
        \/ n = "inactive" /\ o.activity_days > 30
        \/ n = "open_mrs" /\ o.open_mrs > 15
        \/ n = "open_issues" /\ o.open_issues > 50
        \/ n = "pipeline_failed" /\ o.pipeline_status[1] = "failed" }

\* every report project_health_report can give for the answers of the remote
HealthOutcomes ==
    { o \in { HealthReport([i \in 1..5 |->
                              MakeGitlabRequest(HealthEndpoints(ProjectId)[i],
                                                rs[i]).value],
                           ProjectId, NowUtc) : rs \in Answers("health", 5) } :
        o.kind = "report" }

BandRank(status) ==
    CASE status = "excellent" -> 3
      [] status = "attention" -> 2
      [] status = "critical"  -> 1

\* C11: the health score never rises when more penalty predicates hold: for
\* two input situations where every predicate true in the first is true in
\* the second, the second score is at most the first and its band is never
\* a better one.
C11_ScoreMonotone ==
    HealthReported =>
        \A b \in HealthOutcomes :
            TruePredicates(out) \subseteq TruePredicates(b)
                => /\ b.health_score <= out.health_score
                   /\ BandRank(b.health_status) <= BandRank(out.health_status)

\* one predicate against three: a lower score and a worse band
C11_Witness ==
    /\ HealthReported
    /\ Cardinality(TruePredicates(out)) = 1
    /\ out.health_status = "attention"
    /\ \E b \in HealthOutcomes :
          /\ TruePredicates(out) \subseteq TruePredicates(b)
          /\ Cardinality(TruePredicates(b)) = 3
          /\ b.health_score < out.health_score
          /\ b.health_status = "critical"

Bands ==
    << [name |-> "excellent", summary |-> "good_state"],
       [name |-> "attention", summary |-> "has_problems"],
       [name |-> "critical", summary |-> "critical_state"] >>

InBand(score, k) ==
    CASE k = 1 -> score >= 80
      [] k = 2 -> score >= 60 /\ score < 80
      [] k = 3 -> score < 60

\* C12: the band is a total function of the score with exclusive cases: at
\* least 80 is excellent, 60 to 79 needs attention, below 60 is critical;
\* the band label and the closing summary line of a report always name the
\* same band.
C12_BandOfScore ==
    /\ \A sc \in 0..100 :
          /\ Cardinality({ k \in 1..3 : InBand(sc, k) }) = 1
          /\ \A k \in 1..3 : InBand(sc, k) => HealthStatus(sc) = Bands[k].name
    /\ HealthReported =>
          \E k \in 1..3 :
              /\ InBand(out.health_score, k)
              /\ out.health_status = Bands[k].name
              /\ out.summary = Bands[k].summary

\* a score on the boundary between two bands
C12_Witness ==
    /\ HealthReported
    /\ out.health_score = 80
    /\ out.health_status = "excellent"
    /\ out.summary = "good_state"

\* what get_dora_metrics was resumed with, an absent fetch read as no records
Fetched(i) == IF results[i] = None THEN <<>> ELSE results[i].v

\* the length of the window in days, from the dates the requests carried
WindowDays == EndDate(args) - StartDate(args)

\* C13: the divisor of Deployment Frequency is max(end_date - start_date in
\* days, 1): it is 1 when start equals end, it is never 0 or negative, also
\* when start is after end, and so Deployment Frequency, the number of
\* deployments over the divisor, is defined and non-negative.
C13_DivisorAtLeastOne ==
    DoraReported =>
        /\ out.deployment_freq.den = (IF WindowDays > 1 THEN WindowDays ELSE 1)
        /\ out.deployment_freq.den >= 1
        /\ WindowDays <= 0 => out.deployment_freq.den = 1
        /\ out.deployment_freq.num = Len(Fetched(2))
        /\ out.deployment_freq.num >= 0

\* a window whose start is after its end, with deployments in it
C13_Witness ==
    /\ DoraReported
    /\ WindowDays < 0
    /\ out.deployment_freq = Ratio(7, 1)

FailedCount(ds) ==
    Cardinality({ i \in DOMAIN ds : "status" \in DOMAIN ds[i] /\ ds[i].status = "failed" })

\* C14: Change Failure Rate is 100 times the deployments with status failed
\* over all deployments and lies in 0..100; with no deployments it is 0 and
\* Deployment Frequency is 0; a record without status counts in the
\* denominator but not in the numerator.
C14_ChangeFailureRate ==
    DoraReported =>
        LET ds == Fetched(2)
            cfr == out.change_failure_rate
        IN  /\ cfr.den > 0
            /\ 0 <= cfr.num /\ cfr.num <= 100 * cfr.den
            /\ Len(ds) > 0 => cfr.num * Len(ds) = 100 * FailedCount(ds) * cfr.den
            /\ Len(ds) = 0 => cfr.num = 0 /\ out.deployment_freq.num = 0

\* three deployments: a success, one without status, one failed
C14_Witness ==
    /\ DoraReported
    /\ Len(Fetched(2)) = 3
    /\ \E i \in 1..3 : "status" \notin DOMAIN Fetched(2)[i]
    /\ out.change_failure_rate = Ratio(100, 3)

\* the records of a collection that carry the terminal timestamp k
Ended(recs, k) == SelectSeq(recs, LAMBDA r : k \in DOMAIN r)

\* hours from created_at to the terminal timestamp k, summed over the records
HoursTotal(recs, k) ==
    SumSeq([i \in 1..Len(recs) |->
              FromIsoFormat(ReplaceZ(recs[i][k]))
              - FromIsoFormat(ReplaceZ(recs[i].created_at))])

\* the merged items among the first 50 merge requests
MergedOfFirstFifty ==
    Ended(SubSeq(Fetched(3), 1, IF Len(Fetched(3)) < 50 THEN Len(Fetched(3)) ELSE 50),
          "merged_at")

\* C15: Lead Time for Changes is the arithmetic mean of merged_at minus
\* created_at, in days, over the merged items among the first 50 merge
\* requests, and 0 when there is none; records after the 50th never change
\* it; ten merged items two days apart each give 2.0.
C15_LeadTimeIsMeanInDays ==
    DoraReported =>
        LET merged == MergedOfFirstFifty
            avg == out.avg_lead_time
        IN  /\ avg.den > 0
            /\ Len(merged) = 0 => avg.num = 0
            /\ Len(merged) > 0 =>
                  avg.num * 24 * Len(merged) = HoursTotal(merged, "merged_at") * avg.den

\* C16: a record whose created_at is missing is left out of the aggregate it
\* was needed for and never makes the operation fail: get_dora_metrics and
\* analyze_issues still return their report for a collection with such
\* records.
C16_MissingCreatedAtTolerated ==
    (pc = "done" /\ op \in {"dora", "issues"}) => out.kind \in {"report", "no_data"}

\* C17: a merge request without merged_at and an incident without closed_at
\* are left out of the lead-time and restore-time means but are counted in
\* the totals of the report, which equal the lengths of the fetched
\* collections.
C17_TotalsCountOpenRecords ==
    DoraReported =>
        /\ out.merge_requests = Len(Fetched(3))
        /\ out.incidents = Len(Fetched(4))
        /\ out.deployments = Len(Fetched(2))
        /\ out.releases = Len(Fetched(1))
        /\ out.avg_lead_time.den =
              (IF MergedOfFirstFifty = <<>> THEN 1 ELSE Len(MergedOfFirstFifty))
        /\ out.avg_restore_time.den =
              (IF Ended(Fetched(4), "closed_at") = <<>> THEN 1
               ELSE Len(Ended(Fetched(4), "closed_at")))

\* a merged and an unmerged request, two closed incidents and an open one
C17_Witness ==
    /\ DoraReported
    /\ out.merge_requests = 2 /\ Len(MergedOfFirstFifty) = 1
    /\ out.avg_lead_time = Ratio(1, 1)
    /\ out.incidents = 3 /\ Len(Ended(Fetched(4), "closed_at")) = 2

\* C18: Time to Restore Service is the arithmetic mean, in hours, of closed_at
\* minus created_at over the incidents that have a closed_at, and 0 when no
\* incident has one, also when the incident fetch is empty or absent.
C18_RestoreTimeIsMeanInHours ==
    DoraReported =>
        LET closed == Ended(Fetched(4), "closed_at")
            avg == out.avg_restore_time
        IN  /\ avg.den > 0
            /\ Len(closed) = 0 => avg.num = 0
            /\ Len(closed) > 0 =>
                  avg.num * Len(closed) = HoursTotal(closed, "closed_at") * avg.den

\* incidents restored after 5 and 30 hours and one still open: 17.5 hours
C18_Witness ==
    /\ DoraReported
    /\ Len(Fetched(4)) = 3
    /\ out.avg_restore_time.num * 2 = 35 * out.avg_restore_time.den

IssuesDone == op = "issues" /\ pc = "done"

\* the open issues of the answer that carry a created_at
DatedOpenIssues ==
    SelectSeq(Fetched(1),
              LAMBDA r : r.state = "opened" /\ "created_at" \in DOMAIN r)

\* whole days from created_at to now
WholeDaysOld(r) == (NowUtc - FromIsoFormat(ReplaceZ(r.created_at))) \div 24

InAgeGroup(r, g) ==
    CASE g = "lt_1_day"   -> WholeDaysOld(r) < 1
      [] g = "d_1_7"      -> WholeDaysOld(r) >= 1 /\ WholeDaysOld(r) <= 7
      [] g = "w_1_4"      -> WholeDaysOld(r) >= 8 /\ WholeDaysOld(r) <= 30
      [] g = "gt_1_month" -> WholeDaysOld(r) > 30

\* C19: the age groups of analyze_issues are a partition: every open issue
\* with a created_at is counted in exactly one of <1 day, 1-7 days, 8-30 days
\* and more than 30 days by its age in whole days, closed issues are counted
\* in none, issues without created_at are left out, and the four counts sum
\* to the number of open issues that have a created_at.
C19_AgeGroupsPartition ==
    (IssuesDone /\ Fetched(1) # <<>>) =>
        /\ out.kind = "report"
        /\ \A g \in DOMAIN out.age_groups :
              out.age_groups[g] =
                  Len(SelectSeq(DatedOpenIssues, LAMBDA r : InAgeGroup(r, g)))
        /\ out.age_groups["lt_1_day"] + out.age_groups["d_1_7"]
           + out.age_groups["w_1_4"] + out.age_groups["gt_1_month"]
              = Len(DatedOpenIssues)

MrsReported == op = "mrs" /\ pc = "done" /\ out.kind = "report"

CountInState(recs, state) == Cardinality({ i \in DOMAIN recs : recs[i].state = state })

C23_WindowOrdered ==
    DoraReported =>
        /\ out.start_date <= out.end_date
        /\ args.start_date = NoDate => out.start_date = Today - 30
        /\ args.end_date = NoDate => out.end_date = Today

MrsDone == op = "mrs" /\ pc = "done"

\* C24: analyze_merge_requests maps the timeframe week, month, quarter to a
\* look-back of 7, 30, 90 days; any other value is taken as 30 days, not
\* rejected.
C24_TimeframeDays ==
    MrsDone =>
        /\ out.kind \in {"report", "no_data"}
        /\ args.timeframe = "week" => out.days = 7
        /\ args.timeframe = "month" => out.days = 30
        /\ args.timeframe = "quarter" => out.days = 90
        /\ args.timeframe \notin {"week", "month", "quarter"} => out.days = 30

\* a timeframe outside the three names, with requests to report on
C24_Witness ==
    /\ MrsReported
    /\ args.timeframe = "year"
    /\ out.days = 30

\* the remote returned no more open merge requests and issues than asked for
PageSizeHonoured ==
    Len(Fetched(2)) <= HealthPageSize /\ Len(Fetched(3)) <= HealthPageSize

\* C26: project_health_report asks for at most 10 open merge requests and 10
\* open issues, so when the remote honours the page size the predicates
\* "more than 15 open merge requests" and "more than 50 open issues" never
\* hold: the score is one of 100, 85, 70, 55 and the penalties of 20 and 25
\* are never applied.
C26_PagePenaltiesUnreachable ==
    (HealthReported /\ PageSizeHonoured) =>
        /\ out.health_score \in {100, 85, 70, 55}
        /\ "open_mrs" \notin WarningNames(out)
        /\ "open_issues" \notin WarningNames(out)

\* full pages of merge requests and issues, and both remaining penalties
C26_Witness ==
    /\ HealthReported
    /\ Len(Fetched(2)) = HealthPageSize /\ Len(Fetched(3)) = HealthPageSize
    /\ out.open_mrs = 10 /\ out.open_issues = 10
    /\ out.health_score = 55

DoraFinished == op = "dora" /\ pc = "done"

AllAbsent == \A i \in DOMAIN results : results[i] = None

\* C27: get_dora_metrics never ends in a not-found or failure outcome, as it
\* looks up no project: when all four fetches come back absent it still
\* returns a report in which every indicator is 0 and the level is High.
C27_DoraAlwaysReports ==
    DoraFinished =>
        /\ out.kind = "report"
        /\ AllAbsent =>
              /\ out.deployment_freq.num = 0
              /\ out.avg_lead_time.num = 0
              /\ out.avg_restore_time.num = 0
              /\ out.change_failure_rate.num = 0
              /\ out.deployments = 0 /\ out.releases = 0
              /\ out.merge_requests = 0 /\ out.incidents = 0
              /\ out.devops_level = "High"

\* the four requests fail, one of them with the 404 of an unknown project
C27_Witness ==
    /\ DoraReported
    /\ \A i \in 1..4 : IsFailure(task[i].resp)
    /\ task[1].resp.status_code = 404 /\ task[2].resp.exc = "ConnectError"
    /\ out.devops_level = "High"

\* C28: project_health_report decides on not-found only after the join: all
\* five fetches are dispatched and awaited even when the project lookup is
\* absent; an absent lookup never cuts the other four requests short.
C28_NotFoundAfterJoin ==
    op = "health" =>
        /\ pc = "wait" => out.kind = "none"
        /\ out.kind = "not_found" =>
              /\ Len(batch) = 5
              /\ \A i \in 1..5 :
                    /\ task[i].st = "returned"
                    /\ task[i].resp # NoResponse
                    /\ sent[batch[i]] = 1

\* not-found is returned although the other four requests were answered
C28_Witness ==
    /\ op = "health" /\ pc = "done" /\ out.kind = "not_found"
    /\ IsFailure(task[1].resp)
    /\ \A i \in 2..5 : ~IsFailure(task[i].resp) /\ results[i].v # <<>>

\* the report the tool gives when its fetches come back as res
ReportOf(res) ==
    CASE op = "dora"   -> DoraReport(res, args)
      [] op = "health" -> HealthReport(res, args.project_id, NowUtc)

\* the positions of a batch that fetch a collection
CollectionSlots == IF op = "health" THEN 2..5 ELSE 1..4

\* absent where res has the empty collection, and the other way round
Swapped(res, i) ==
    [res EXCEPT ![i] = IF res[i] = None THEN JList(<<>>) ELSE None]

\* C29: at every collection position of get_dora_metrics and
\* project_health_report a failed fetch and a fetch of the empty collection
\* give the same output: two runs that differ only in absent against empty
\* at such a position return identical reports.
C29_AbsentLikeEmpty ==
    (pc = "done" /\ op \in {"dora", "health"}) =>
        \A i \in CollectionSlots :
            results[i] \in {None, JList(<<>>)} => ReportOf(Swapped(results, i)) = out

\* a health report with the pipelines absent and the events empty
C29_Witness ==
    /\ HealthReported
    /\ results[4] = None /\ IsFailure(task[4].resp)
    /\ results[5] = JList(<<>>) /\ ~IsFailure(task[5].resp)
    /\ results[2] # None /\ results[2].v # <<>>
    /\ out.pipeline_status = << "unknown" >>

\* whole days from created_at to merged_at, summed over the records
WholeDaysTotal(recs) ==
    SumSeq([i \in 1..Len(recs) |->
              (FromIsoFormat(ReplaceZ(recs[i].merged_at))
               - FromIsoFormat(ReplaceZ(recs[i].created_at))) \div 24])

WithinADay(r) ==
    FromIsoFormat(ReplaceZ(r.merged_at)) - FromIsoFormat(ReplaceZ(r.created_at)) \in 0..23

\* C30: each merged item adds to Lead Time the whole number of days between
\* created_at and merged_at, the fraction of a day dropped before the mean is
\* taken: an item merged within 24 hours adds 0, and a collection whose items
\* are all merged within 24 hours has Lead Time 0.
C30_LeadTimeWholeDays ==
    DoraReported =>
        LET merged == MergedOfFirstFifty
            avg == out.avg_lead_time
        IN  /\ avg.den > 0
            /\ Len(merged) > 0 => avg.num * Len(merged) = WholeDaysTotal(merged) * avg.den
            /\ (\A i \in DOMAIN merged : WithinADay(merged[i])) => avg.num = 0

\* two items merged 5 and 23 hours after creation: Lead Time 0
C30_Witness ==
    /\ DoraReported
    /\ Len(MergedOfFirstFifty) = 2
    /\ \A i \in 1..2 : WithinADay(MergedOfFirstFifty[i])
    /\ out.avg_lead_time.num = 0

PipelinesDone == op = "pipelines" /\ pc = "done"

\* the pipelines of the answer whose status field is success
SuccessCount(ps) ==
    Cardinality({ i \in DOMAIN ps : "status" \in DOMAIN ps[i] /\ ps[i].status = "success" })

RECURSIVE SumOver(_, _)
SumOver(f, keys) ==
    IF keys = {} THEN 0
    ELSE LET k == CHOOSE x \in keys : TRUE
         IN  f[k] + SumOver(f, keys \ {k})

\* the rate of a pipeline report: 100 x success / pipelines, within 0..100,
\* and a distribution whose counts add up to the number of pipelines
RateAsDerived ==
    /\ out.success_rate.den > 0
    /\ out.success_rate.num * Len(Fetched(1))
          = 100 * SuccessCount(Fetched(1)) * out.success_rate.den
    /\ 0 <= out.success_rate.num
    /\ out.success_rate.num <= 100 * out.success_rate.den
    /\ SumOver(out.status_counts, DOMAIN out.status_counts) = Len(Fetched(1))
    /\ out.total = Len(Fetched(1))

QuotientFields ==
    {"deployment_freq", "avg_lead_time", "avg_restore_time", "change_failure_rate",
     "merged_share", "avg_review_time", "avg_mr_size", "merge_rate",
     "success_rate", "avg_duration"}

\* the tool returned its report or its no-data message, every quotient in it
\* the result of a division by a non-zero number
NormalResult(o) ==
    /\ o.kind \in {"report", "no_data"}
    /\ \A f \in DOMAIN o \cap QuotientFields : o[f].den > 0
    /\ "percentages" \in DOMAIN o =>
          \A ty \in DOMAIN o.percentages : o.percentages[ty].den > 0

\* what the tool about to finish has fetched, one slot per request it made
Fetches == IF op = "activity" THEN << out.events, results[1] >> ELSE results

\* the result the tool gives for the fetches f
ResultFor(f) ==
    CASE op = "dora"      -> DoraReport(f, args)
      [] op = "health"    -> HealthReport(f, args.project_id, NowUtc)
      [] op = "mrs"       -> MrsReport(f, args)
      [] op = "issues"    -> IssuesReport(f, args, NowUtc)
      [] op = "pipelines" -> PipelinesReport(f, args)
      [] op = "activity"  -> ActivityReport(OrEmptyList(f[1]), f[2], args)

\* the slots of Fetches that hold a collection
Collections ==
    CASE op = "health"   -> 2..5
      [] op = "activity" -> {1}
      [] OTHER           -> DOMAIN results

\* C22: no report operation fails on a collection that was fetched and is
\* empty: get_dora_metrics, get_project_activity, analyze_merge_requests,
\* monitor_pipelines, analyze_issues and project_health_report return a
\* normal result, every division guarded, when their collections are empty,
\* and emptying one collection never turns a normal result into a failure.
C22_EmptyNeverFails ==
    [][ (pc' = "done" /\ op \in DerivedOps) =>
          /\ out' = ResultFor(Fetches)
          /\ ( /\ \A i \in Collections : Fetches[i] = JList(<<>>)
               /\ op = "health" => Truthy(results[1]) )
                => NormalResult(out')
          /\ \A i \in Collections :
                NormalResult(out')
                    => NormalResult(ResultFor([Fetches EXCEPT ![i] = JList(<<>>)]))
      ]_vars

\* an activity report over no events at all, for a project that was found
C22_Witness ==
    /\ op = "activity" /\ pc = "done"
    /\ out.kind = "report" /\ out.total = 0 /\ out.types = 0
    /\ ~IsFailure(task[1].resp)
    /\ out.project_name = "demo"

\* what invocation k would hold had it run alone with the answers it got
AloneResults(k) ==
    [i \in DOMAIN task[k] |->
        IF Finished(task[k][i])
        THEN MakeGitlabRequest(batch[k][i], task[k][i].resp).value
        ELSE Pending]

\* C25: report invocations share no mutable state: when two invocations, of
\* the same or of different operations, run interleaved on one event loop,
\* each returns what it would return running alone with the same arguments
\* and the same answers to its fetches; nothing computed in one is seen by
\* the other.
C25_InvocationsIndependent ==
    \A k \in Invocations :
        /\ results[k] = AloneResults(k)
        /\ pc[k] = "done" => out[k] = ResultOf(op[k], AloneResults(k), args[k])
        /\ pc[k] # "done" => out[k] = [kind |-> "none"]

\* two invocations of the same tool on the same project, one finished with
\* a report while the other, whose deployments request failed, still waits
C25_Witness ==
    /\ op[1] = "dora" /\ op[2] = "dora"
    /\ pc[2] = "done" /\ out[2].kind = "report" /\ out[2].deployments = 1
    /\ pc[1] = "wait"
    /\ task[1][2].st = "returned" /\ IsFailure(task[1][2].resp)
    /\ results[1][2] = None
    /\ task[1][3].st = "inflight"

====
